---- MODULE Spec2Model ----
(***************************************************************************)
(* tinygoize: the worker pool of tools/tinygoize/main.go (buildDirs,       *)
(* worker, main), the build classification of tools/tinygoize/build.go     *)
(* (build) and the //go:build rewriter (fixupFileConstraints,              *)
(* fixupPkgConstraints).                                                   *)
(*                                                                         *)
(* A source file is a record [ok, cgs, canon]: ok is whether               *)
(* parser.ParseFile accepts it, cgs the comment groups in file order (a    *)
(* group is a sequence of comments, a comment the sequence of the tokens   *)
(* of its text), canon whether the bytes are the ones go/printer emits for *)
(* the parsed file.  White space inside a comment is not modelled: the     *)
(* token goBuild stands for the prefix "//go:build " and the token         *)
(* constraint for the exact text "!tinygo || tinygo.enable".  A comment    *)
(* holds the constant when it has the token constraint; the strip pattern  *)
(* also matches the token clauseLike, a text that differs from the         *)
(* constant in the character the pattern's unescaped `.` stands for.       *)
(*                                                                         *)
(* Spec is the worker pool on a list of distinct directories, SpecDup the  *)
(* same on a list that names one directory several times, SpecFair the     *)
(* worker pool under a fair scheduler.  SpecRewriter applies               *)
(* fixupFileConstraints to one file of arbitrary comment groups,           *)
(* SpecConjoin to a file with one annotation line of arbitrary expression. *)
(***************************************************************************)
EXTENDS Integers, Sequences, FiniteSets, TLC

\* ------------------------------------------------------------------ bounds
MaxDirs == 2
MaxGroups == 2
MaxApply == 2
MaxOps == 2

\* runtime.NumCPU()
NumCPU == 2

\* --------------------------------------------------------- clause grammar
goBuild == "//go:build "
constraint == "!tinygo || tinygo.enable"

\* a text that is not the constant but that the strip pattern matches, its
\* `.` being unescaped
clauseLike == "!tinygo || tinygo_enable"

\* the pattern `!tinygo\s+\|\|\s+tinygo.enable` matches the token
MatchesClause(tok) == tok \in {constraint, clauseLike}

\* a comment that starts with the prefix and has an expression after it
HasPrefixGoBuild(c) == Len(c) >= 2 /\ c[1] = goBuild

\* strings.Contains(c.Text, constraint)
Contains(c) == \E i \in 1..Len(c) : c[i] = constraint

\* regexp `^\s*//go:build\s*$`
IsEmptyGoBuild(c) == c = <<goBuild>>

\* t without its first token when that token is tok
DropIf(t, tok) == IF t # <<>> /\ Head(t) = tok THEN Tail(t) ELSE t

\* regexp `\(?\s*!tinygo\s+\|\|\s+tinygo.enable\s*\)?(\s+\&\&)?` replaced by
\* "" at every leftmost non-overlapping match
RECURSIVE StripClause(_)
StripClause(t) ==
    IF t = <<>> THEN <<>>
    ELSE IF Len(t) >= 2 /\ t[1] = "(" /\ MatchesClause(t[2])
    THEN StripClause(DropIf(DropIf(SubSeq(t, 3, Len(t)), ")"), "&&"))
    ELSE IF MatchesClause(t[1])
    THEN StripClause(DropIf(DropIf(Tail(t), ")"), "&&"))
    ELSE <<Head(t)>> \o StripClause(Tail(t))

\* mutant: the clause left out of the rewritten line
ConjoinWithoutClause(c) == <<goBuild, "(">> \o Tail(c) \o <<")">>

\* mutant: the old expression not put in parentheses
ConjoinNoParens(c) == <<goBuild, "(", constraint, ")", "&&">> \o Tail(c)

\* goBuild + "(" + constraint + ") && (" + c.Text[len(goBuild):] + ")"
Conjoin(c) == <<goBuild, "(", constraint, ")", "&&", "(">> \o Tail(c) \o <<")">>

\* index of the first comment of a group that has the prefix, 0 if none
RECURSIVE FirstGoBuildFrom(_, _)
FirstGoBuildFrom(list, i) ==
    IF i > Len(list) THEN 0
    ELSE IF HasPrefixGoBuild(list[i]) THEN i
    ELSE FirstGoBuildFrom(list, i + 1)

FirstGoBuild(list) == FirstGoBuildFrom(list, 1)

\* the comments of a group that are not an empty //go:build
RECURSIVE Filtered(_)
Filtered(list) ==
    IF list = <<>> THEN <<>>
    ELSE IF IsEmptyGoBuild(Head(list)) THEN Filtered(Tail(list))
    ELSE <<Head(list)>> \o Filtered(Tail(list))

\* the group after its line i was stripped: a line left empty is removed
DropEmptied(stripped, i) ==
    IF IsEmptyGoBuild(stripped[i]) THEN Filtered(stripped) ELSE stripped

\* mutant: the second disjunct forgotten
UpToDateOnlyBuilds(builds, contains) == builds /\ ~contains

\* (builds && !contains) || (!builds && contains): nothing to do for the line
UpToDate(builds, contains) == (builds /\ ~contains) \/ (~builds /\ contains)

\* the body of the inner loop at the first comment with the prefix, line i
EditLine(list, i, builds) ==
    IF UpToDate(builds, Contains(list[i]))
    THEN [list |-> list, found |-> TRUE, upToDate |-> TRUE]
    ELSE IF builds
    THEN [list |-> DropEmptied([list EXCEPT ![i] = StripClause(list[i])], i),
          found |-> TRUE, upToDate |-> FALSE]
    ELSE [list |-> [list EXCEPT ![i] = Conjoin(list[i])],
          found |-> TRUE, upToDate |-> FALSE]

\* the inner loop over cg.List: the first comment with the prefix decides and
\* the loop is left.  upToDate is the early return of the whole function.
EditGroup(list, builds) ==
    IF FirstGoBuild(list) = 0
    THEN [list |-> list, found |-> FALSE, upToDate |-> FALSE]
    ELSE EditLine(list, FirstGoBuild(list), builds)

\* the groups edited so far, acc, and the next group edited, g
EditedSoFar(acc, g) ==
    IF g.upToDate THEN [cgs |-> acc.cgs, found |-> TRUE, upToDate |-> TRUE]
    ELSE [cgs |-> Append(acc.cgs, g.list), found |-> acc.found \/ g.found,
          upToDate |-> FALSE]

\* the outer loop over f.Comments from group i on: every group is visited in
\* order until one of them returns early
RECURSIVE EditGroupsFrom(_, _, _, _)
EditGroupsFrom(acc, cgs, i, builds) ==
    IF acc.upToDate \/ i > Len(cgs) THEN acc
    ELSE EditGroupsFrom(EditedSoFar(acc, EditGroup(cgs[i], builds)), cgs, i + 1, builds)

EditGroups(cgs, builds) ==
    EditGroupsFrom([cgs |-> <<>>, found |-> FALSE, upToDate |-> FALSE], cgs, 1, builds)

\* mutant: the new group always prepended
InsertGroupFirst(cgs) == << << <<goBuild, constraint>> >> >> \o cgs

\* insertion of a new group holding the clause, after the first group if any
InsertGroup(cgs) ==
    IF Len(cgs) > 0 THEN <<cgs[1], << <<goBuild, constraint>> >> >> \o Tail(cgs)
    ELSE << << <<goBuild, constraint>> >> >> \o cgs

\* printer.Fprint of the edited file: empty comment groups are skipped and
\* the layout is the printer's own
RECURSIVE NonEmptyGroups(_)
NonEmptyGroups(cgs) ==
    IF cgs = <<>> THEN <<>>
    ELSE IF Head(cgs) = <<>> THEN NonEmptyGroups(Tail(cgs))
    ELSE <<Head(cgs)>> \o NonEmptyGroups(Tail(cgs))

Fprint(cgs) == [ok |-> TRUE, cgs |-> NonEmptyGroups(cgs), canon |-> TRUE]

\* after the loops, e their result: the insertion when the file does not build
\* and has no line, and the printed file buf; skipped is the early return
Printed(e, builds) ==
    [skipped |-> e.upToDate,
     buf |-> Fprint(IF ~builds /\ ~e.found THEN InsertGroup(e.cgs) ELSE e.cgs)]

\* fixupFileConstraints up to the comparison of the printed file with the
\* bytes read
Rewritten(b, builds) == Printed(EditGroups(b.cgs, builds), builds)

\* mutant: the checkonly test forgotten
WriteBackAlways(b, buf, checkonly, writable) ==
    IF buf = b
    THEN [out |-> b, mustDoWork |-> FALSE, wrote |-> FALSE, fatal |-> FALSE]
    ELSE IF ~writable
    THEN [out |-> b, mustDoWork |-> TRUE, wrote |-> FALSE, fatal |-> TRUE]
    ELSE [out |-> buf, mustDoWork |-> TRUE, wrote |-> TRUE, fatal |-> FALSE]

\* mutant: the error of os.WriteFile ignored
WriteBackIgnoringError(b, buf, checkonly, writable) ==
    IF buf = b
    THEN [out |-> b, mustDoWork |-> FALSE, wrote |-> FALSE, fatal |-> FALSE]
    ELSE IF checkonly \/ ~writable
    THEN [out |-> b, mustDoWork |-> TRUE, wrote |-> FALSE, fatal |-> FALSE]
    ELSE [out |-> buf, mustDoWork |-> TRUE, wrote |-> TRUE, fatal |-> FALSE]

\* the end of fixupFileConstraints: mustDoWork, and the write unless
\* checkonly; writable is whether os.WriteFile succeeds on the file, its
\* error is a log.Fatal and the file keeps its bytes
WriteBack(b, buf, checkonly, writable) ==
    IF buf = b
    THEN [out |-> b, mustDoWork |-> FALSE, wrote |-> FALSE, fatal |-> FALSE]
    ELSE IF checkonly
    THEN [out |-> b, mustDoWork |-> TRUE, wrote |-> FALSE, fatal |-> FALSE]
    ELSE IF ~writable
    THEN [out |-> b, mustDoWork |-> TRUE, wrote |-> FALSE, fatal |-> TRUE]
    ELSE [out |-> buf, mustDoWork |-> TRUE, wrote |-> TRUE, fatal |-> FALSE]

\* fixupFileConstraints after the edit r of the parsed file
Finished(b, r, checkonly, writable) ==
    IF r.skipped
    THEN [out |-> b, mustDoWork |-> FALSE, wrote |-> FALSE, fatal |-> FALSE]
    ELSE WriteBack(b, r.buf, checkonly, writable)

\* fixupFileConstraints(file, builds, checkonly) on the bytes b of the file:
\* out is the bytes of the file afterwards, mustDoWork the returned flag,
\* wrote whether os.WriteFile wrote the file, fatal whether log.Fatal ended
\* the process (the file does not parse, or os.WriteFile fails)
fixupFileConstraints(b, builds, checkonly, writable) ==
    IF ~b.ok
    THEN [out |-> b, mustDoWork |-> FALSE, wrote |-> FALSE, fatal |-> TRUE]
    ELSE Finished(b, Rewritten(b, builds), checkonly, writable)

\* mutant: `mustDoWork = mdw`, the flag of the last file wins
FileDoneLastWins(acc, r, i) ==
    IF r.fatal THEN [acc EXCEPT !.fatal = TRUE]
    ELSE [files |-> [acc.files EXCEPT ![i] = r.out],
          mustDoWork |-> r.mustDoWork,
          wrote |-> IF r.wrote THEN acc.wrote \cup {i} ELSE acc.wrote,
          visited |-> i, fatal |-> FALSE]

\* the body of the loop of fixupPkgConstraints for file i, r the result of
\* fixupFileConstraints on it and acc the state of the package before
FileDone(acc, r, i) ==
    IF r.fatal THEN [acc EXCEPT !.fatal = TRUE]
    ELSE [files |-> [acc.files EXCEPT ![i] = r.out],
          mustDoWork |-> acc.mustDoWork \/ r.mustDoWork,
          wrote |-> IF r.wrote THEN acc.wrote \cup {i} ELSE acc.wrote,
          visited |-> i, fatal |-> FALSE]

\* the loop of fixupPkgConstraints from file i on: the files are rewritten in
\* order; a log.Fatal stops at that file.  visited counts the files
\* fixupFileConstraints returned from, wrote is the files written.
RECURSIVE fixupPkgFrom(_, _, _, _, _)
fixupPkgFrom(acc, i, builds, checkonly, writable) ==
    IF acc.fatal \/ i > Len(acc.files) THEN acc
    ELSE fixupPkgFrom(FileDone(acc, fixupFileConstraints(acc.files[i], builds, checkonly,
                                                         writable), i),
                      i + 1, builds, checkonly, writable)

\* fixupPkgConstraints(dir, builds, checkonly) on the .go files of dir;
\* writable is whether the files of dir can be written
fixupPkgConstraints(files, builds, checkonly, writable) ==
    fixupPkgFrom([files |-> files, mustDoWork |-> FALSE, wrote |-> {}, visited |-> 0,
                  fatal |-> FALSE], 1, builds, checkonly, writable)

\* ------------------------------------------------------------ build runner
\* what the two subprocesses of build() do in a directory: "ok" (exit 0),
\* "exit" (exec.ExitError, go build -n does not report exclusion),
\* "exitExcluded" (exec.ExitError, go build -n reports exclusion),
\* "launch" (the command could not be run: any other error)
Toolchain == {"ok", "exit", "exitExcluded", "launch"}

\* isExcluded(dir)
isExcluded(t) == t = "exitExcluded"

\* mutant: an error that is no exec.ExitError handled like one
buildLaunchAsFailure(t) ==
    IF t = "ok"
    THEN [res |-> [err |-> "nil", excluded |-> FALSE], err |-> "nil", oracle |-> 0]
    ELSE IF isExcluded(t)
    THEN [res |-> [err |-> "ExitError", excluded |-> TRUE], err |-> "nil", oracle |-> 1]
    ELSE [res |-> [err |-> "ExitError", excluded |-> FALSE], err |-> "nil", oracle |-> 1]

\* build(id, tinygo, dir): the BuildRes, the returned error and the number of
\* calls of isExcluded
build(t) ==
    IF t = "ok"
    THEN [res |-> [err |-> "nil", excluded |-> FALSE], err |-> "nil", oracle |-> 0]
    ELSE IF t = "launch"
    THEN [res |-> [err |-> "nil", excluded |-> FALSE], err |-> "launch", oracle |-> 0]
    ELSE IF isExcluded(t)
    THEN [res |-> [err |-> "ExitError", excluded |-> TRUE], err |-> "nil", oracle |-> 1]
    ELSE [res |-> [err |-> "ExitError", excluded |-> FALSE], err |-> "nil", oracle |-> 1]

\* ------------------------------------------------------------- input files
Copyright == <<"// Copyright">>
FPlain == [ok |-> TRUE, cgs |-> << <<Copyright>> >>, canon |-> TRUE]
FClause == [ok |-> TRUE, cgs |-> << <<Copyright>>, << <<goBuild, constraint>> >> >>,
            canon |-> TRUE]
FClauseRaw == [ok |-> TRUE, cgs |-> << << <<goBuild, constraint>> >> >>, canon |-> FALSE]
FOther == [ok |-> TRUE, cgs |-> << << <<goBuild, "linux">> >> >>, canon |-> TRUE]
FRaw == [ok |-> TRUE, cgs |-> <<>>, canon |-> FALSE]
FBad == [ok |-> FALSE, cgs |-> <<>>, canon |-> FALSE]

\* the .go files of a directory
Packages == << <<>>, <<FPlain>>, <<FClause, FClauseRaw>>, <<FPlain, FClause>>, <<FOther, FClause>>,
               <<FRaw>>, <<FClause, FBad>> >>

\* the directories hold consecutive packages of the list, from the k-th on
DiskFrom(k, n) ==
    [d \in 1..MaxDirs |-> IF d <= n THEN Packages[((k + d - 2) % Len(Packages)) + 1]
                          ELSE <<>>]

\* ------------------------------------------------------------------- state
VARIABLES
    conf,          \* Config: dirs, nWorkers, checkOnly
    toolchain,     \* per directory, what the build subprocesses do
    disk,          \* per directory, the bytes of its .go files
    disk0,         \* the disk when the run started
    mainPc,        \* main goroutine: "start", "collect", "returned", "exited"
    nWorkers,      \* workers spawned by buildDirs
    workers,       \* per worker id: pc, dir, buildRes, didWork, err
    wg,            \* sync.WaitGroup counter
    feeder,        \* index into conf.dirs of the next task to send
    tasksClosed,   \* close(tasks) happened
    resultsClosed, \* close(results) happened
    nComplete,     \* results received by the collector
    status,        \* BuildStatus
    err,           \* the error buildDirs returns
    fatalResult,   \* the collector left its loop on a result with err != nil
    fixups,        \* <<dir, builds, n>>: fixupPkgConstraints(dir, builds, ..) ran
                   \* the rewriter on n files
    writes,        \* <<dir, i>>: os.WriteFile ran on file i of dir
    calls,         \* per directory, how often build ran its subprocess and how
                   \* often it called isExcluded
    exitCode,      \* -1 while the process runs, then its exit status
    rw             \* the rewriter applied to one file: the file, checkonly,
                   \* and per application the arguments and the results

run == <<conf, toolchain, disk, disk0, mainPc, nWorkers, workers, wg, feeder,
         tasksClosed, resultsClosed, nComplete, status, err, fatalResult,
         fixups, writes, calls>>

vars == <<run, exitCode, rw>>

Dirs == 1..MaxDirs

DirLists == {[i \in 1..n |-> i] : n \in 0..MaxDirs}

\* the -j flag
Requested == {-1, 0, 1, MaxDirs + 1}

NoRes == [err |-> "nil", excluded |-> FALSE]

Idle == [pc |-> "recv", dir |-> 0, buildRes |-> NoRes, didWork |-> FALSE, err |-> "nil"]

NoRw == [file0 |-> FPlain, file |-> FPlain, checkonly |-> FALSE, hist |-> <<>>]

\* the state of main before buildDirs is called
InitRun ==
    /\ disk0 = disk
    /\ mainPc = "start"
    /\ nWorkers = 0
    /\ workers = <<>>
    /\ wg = 0
    /\ feeder = 1
    /\ tasksClosed = FALSE
    /\ resultsClosed = FALSE
    /\ nComplete = 0
    /\ status = [passing |-> <<>>, failing |-> <<>>, excluded |-> <<>>, modified |-> <<>>]
    /\ err = "nil"
    /\ fatalResult = FALSE
    /\ fixups = {}
    /\ writes = {}
    /\ calls = [d \in Dirs |-> [build |-> 0, oracle |-> 0]]
    /\ exitCode = -1

Init ==
    /\ conf \in [dirs : DirLists, nWorkers : Requested, checkOnly : BOOLEAN]
    /\ toolchain \in [Dirs -> Toolchain]
    /\ \A d \in Dirs : d > Len(conf.dirs) => toolchain[d] = "ok"
    /\ \E k \in 1..Len(Packages) : disk = DiskFrom(k, Len(conf.dirs))
    /\ InitRun
    /\ rw = NoRw

Running == exitCode = -1

\* buildDirs up to the collection loop: the worker count, the workers, the
\* feeder and the goroutine that closes results
\* mutant: the cap at the number of jobs forgotten
nWorkersUncapped(requested, jobs) == IF requested <= 0 THEN NumCPU ELSE requested

nWorkersFor(requested, jobs) ==
    LET n == IF requested <= 0 THEN NumCPU ELSE requested
    IN  IF n > jobs THEN jobs ELSE n

Spawn ==
    /\ Running /\ mainPc = "start"
    /\ nWorkers' = nWorkersFor(conf.nWorkers, Len(conf.dirs))
    /\ workers' = [id \in 1..nWorkers' |-> Idle]
    /\ wg' = nWorkers'
    /\ mainPc' = "collect"
    /\ UNCHANGED <<rw, calls>>
    /\ UNCHANGED <<conf, toolchain, disk, disk0, feeder, tasksClosed, resultsClosed,
                   nComplete, status, err, fatalResult, fixups, writes, exitCode>>

Started == mainPc # "start"

\* tasks <- dir, received by worker id at `for dir := range tasks`
Feed(id) ==
    /\ Running /\ Started /\ ~tasksClosed
    /\ feeder <= Len(conf.dirs)
    /\ workers[id].pc = "recv"
    /\ workers' = [workers EXCEPT ![id] = [Idle EXCEPT !.pc = "build",
                                                      !.dir = conf.dirs[feeder]]]
    /\ feeder' = feeder + 1
    /\ UNCHANGED <<rw, calls>>
    /\ UNCHANGED <<conf, toolchain, disk, disk0, mainPc, nWorkers, wg, tasksClosed,
                   resultsClosed, nComplete, status, err, fatalResult, fixups,
                   writes, exitCode>>

\* close(tasks)
CloseTasks ==
    /\ Running /\ Started /\ ~tasksClosed
    /\ feeder > Len(conf.dirs)
    /\ tasksClosed' = TRUE
    /\ UNCHANGED <<rw, calls>>
    /\ UNCHANGED <<conf, toolchain, disk, disk0, mainPc, nWorkers, workers, wg, feeder,
                   resultsClosed, nComplete, status, err, fatalResult, fixups,
                   writes, exitCode>>

\* mutant: the exclusion not tested
NeedsFixupUnlessError(b) == b.err = "nil"

\* worker: `if err == nil && !br.excluded`
NeedsFixup(b) == b.err = "nil" /\ ~b.res.excluded

\* mutant: the flag inverted
BuildsInverted(br) == br.err # "nil"

\* worker: the builds argument of fixupPkgConstraints, `br.err == nil`
Builds(br) == br.err = "nil"

\* worker: br, err := build(id, &conf.tinygo, dir)
Build(id) ==
    /\ Running /\ workers[id].pc = "build"
    /\ LET b == build(toolchain[workers[id].dir]) IN
       /\ workers' = [workers EXCEPT ![id] =
                     [workers[id] EXCEPT !.buildRes = b.res, !.err = b.err,
                               !.pc = IF NeedsFixup(b) THEN "fixup" ELSE "send"]]
       /\ calls' = [calls EXCEPT ![workers[id].dir] =
                     [build |-> calls[workers[id].dir].build + 1,
                      oracle |-> calls[workers[id].dir].oracle + b.oracle]]
    /\ UNCHANGED rw
    /\ UNCHANGED <<conf, toolchain, disk, disk0, mainPc, nWorkers, wg, feeder,
                   tasksClosed, resultsClosed, nComplete, status, err, fatalResult,
                   fixups, writes, exitCode>>

\* the workers that are in fixupPkgConstraints on the directory of worker id
Racers(id) ==
    {w \in 1..nWorkers : workers[w].pc = "fixup" /\ workers[w].dir = workers[id].dir}

\* two workers that rewrite the files of one directory at the same time are
\* not synchronised: worker id runs before the others ("alone"), or all of
\* them read every file before any of them writes it ("together"), or one
\* reads a file the other has truncated and not yet written ("torn")
Races(id) ==
    IF ~conf.checkOnly /\ Racers(id) # {id} THEN {"alone", "together", "torn"}
    ELSE {"alone"}

\* the workers `who`: the call dw, err = fixupPkgConstraints(dir, builds,
\* conf.checkOnly) with result r
Fixed(who, d, builds, r) ==
    /\ disk' = [disk EXCEPT ![d] = r.files]
    /\ fixups' = fixups \cup {<<d, builds, r.visited>>}
    /\ writes' = writes \cup {<<d, i>> : i \in r.wrote}
    /\ IF r.fatal
       THEN /\ exitCode' = 1
            /\ UNCHANGED workers
       ELSE /\ workers' = [w \in 1..nWorkers |->
                             IF w \in who
                             THEN [workers[w] EXCEPT !.didWork = r.mustDoWork,
                                                     !.pc = "send"]
                             ELSE workers[w]]
            /\ UNCHANGED exitCode

\* parser.ParseFile fails on a file that is being written: log.Fatalf
Torn ==
    /\ exitCode' = 1
    /\ UNCHANGED <<disk, fixups, writes, workers>>

\* worker: dw, err = fixupPkgConstraints(dir, br.err == nil, conf.checkOnly)
Fixup(id) ==
    /\ Running /\ workers[id].pc = "fixup"
    /\ \E writable \in BOOLEAN, race \in Races(id) :
           \E r \in {fixupPkgConstraints(disk[workers[id].dir],
                                         Builds(workers[id].buildRes),
                                         conf.checkOnly, writable)} :
               IF race = "torn" THEN Torn
               ELSE Fixed(IF race = "together" THEN Racers(id) ELSE {id},
                          workers[id].dir, Builds(workers[id].buildRes), r)
    /\ UNCHANGED <<rw, calls>>
    /\ UNCHANGED <<conf, toolchain, disk0, mainPc, nWorkers, wg, feeder, tasksClosed,
                   resultsClosed, nComplete, status, err, fatalResult>>

\* mutant: the deferred workGroup.Done() forgotten
WorkerExitWithoutDone(id) ==
    /\ Running /\ workers[id].pc = "recv"
    /\ tasksClosed
    /\ workers' = [workers EXCEPT ![id].pc = "done"]
    /\ UNCHANGED <<rw, calls>>
    /\ UNCHANGED <<conf, toolchain, disk, disk0, mainPc, nWorkers, wg, feeder, tasksClosed,
                   resultsClosed, nComplete, status, err, fatalResult, fixups,
                   writes, exitCode>>

\* worker: the range over tasks ends, the deferred workGroup.Done() runs
WorkerExit(id) ==
    /\ Running /\ workers[id].pc = "recv"
    /\ tasksClosed
    /\ workers' = [workers EXCEPT ![id].pc = "done"]
    /\ wg' = wg - 1
    /\ UNCHANGED <<rw, calls>>
    /\ UNCHANGED <<conf, toolchain, disk, disk0, mainPc, nWorkers, feeder, tasksClosed,
                   resultsClosed, nComplete, status, err, fatalResult, fixups,
                   writes, exitCode>>

\* wg.Wait() returns, close(results)
CloseResults ==
    /\ Running /\ Started /\ ~resultsClosed
    /\ wg = 0
    /\ resultsClosed' = TRUE
    /\ UNCHANGED <<rw, calls>>
    /\ UNCHANGED <<conf, toolchain, disk, disk0, mainPc, nWorkers, workers, wg, feeder,
                   tasksClosed, nComplete, status, err, fatalResult, fixups, writes,
                   exitCode>>

\* mutant: `if` for `else if`, an excluded directory is also a failing one
ClassifyNoElse(st, result) ==
    LET st0 == IF result.buildRes.excluded
               THEN [st EXCEPT !.excluded = Append(@, result.dir)]
               ELSE st
        st1 == IF result.buildRes.err # "nil"
               THEN [st0 EXCEPT !.failing = Append(@, result.dir)]
               ELSE [st0 EXCEPT !.passing = Append(@, result.dir)]
    IN  IF result.didWork THEN [st1 EXCEPT !.modified = Append(@, result.dir)]
        ELSE st1

\* the body of the collection loop for one received result
Classify(st, result) ==
    LET st1 == IF result.buildRes.excluded
               THEN [st EXCEPT !.excluded = Append(@, result.dir)]
               ELSE IF result.buildRes.err # "nil"
               THEN [st EXCEPT !.failing = Append(@, result.dir)]
               ELSE [st EXCEPT !.passing = Append(@, result.dir)]
    IN  IF result.didWork THEN [st1 EXCEPT !.modified = Append(@, result.dir)]
        ELSE st1

\* mutant: the result counted after the test of its error
CollectCountAfterBreak(id) ==
    /\ Running /\ mainPc = "collect"
    /\ workers[id].pc = "send"
    /\ workers' = [workers EXCEPT ![id] = [workers[id] EXCEPT !.pc = "recv"]]
    /\ IF workers[id].err # "nil"
       THEN /\ mainPc' = "returned"
            /\ fatalResult' = TRUE
            /\ UNCHANGED <<status, nComplete>>
       ELSE /\ status' = Classify(status, workers[id])
            /\ nComplete' = nComplete + 1
            /\ UNCHANGED <<mainPc, fatalResult>>
    /\ UNCHANGED <<rw, calls>>
    /\ UNCHANGED <<conf, toolchain, disk, disk0, nWorkers, wg, feeder, tasksClosed,
                   resultsClosed, err, fixups, writes, exitCode>>

\* results <- WorkerResult{...} of worker id, received by the collector
Collect(id) ==
    /\ Running /\ mainPc = "collect"
    /\ workers[id].pc = "send"
    /\ workers' = [workers EXCEPT ![id] = [workers[id] EXCEPT !.pc = "recv"]]
    /\ nComplete' = nComplete + 1
    /\ IF workers[id].err # "nil"
       THEN /\ mainPc' = "returned"
            /\ fatalResult' = TRUE
            /\ UNCHANGED status
       ELSE /\ status' = Classify(status, workers[id])
            /\ UNCHANGED <<mainPc, fatalResult>>
    /\ UNCHANGED <<rw, calls>>
    /\ UNCHANGED <<conf, toolchain, disk, disk0, nWorkers, wg, feeder, tasksClosed,
                   resultsClosed, err, fixups, writes, exitCode>>

\* the range over results ends: buildDirs returns
Return ==
    /\ Running /\ mainPc = "collect"
    /\ resultsClosed
    /\ mainPc' = "returned"
    /\ UNCHANGED <<rw, calls>>
    /\ UNCHANGED <<conf, toolchain, disk, disk0, nWorkers, workers, wg, feeder,
                   tasksClosed, resultsClosed, nComplete, status, err, fatalResult,
                   fixups, writes, exitCode>>

\* sort.Strings(dirs) in writeMarkdown's processSet
RECURSIVE Insert(_, _)
Insert(x, s) ==
    IF s = <<>> THEN <<x>>
    ELSE IF x <= Head(s) THEN <<x>> \o s
    ELSE <<Head(s)>> \o Insert(x, Tail(s))

RECURSIVE Sorted(_)
Sorted(s) == IF s = <<>> THEN <<>> ELSE Insert(Head(s), Sorted(Tail(s)))

\* main after buildDirs: log.Fatal(err), writeMarkdown, the exit status
Finish ==
    /\ Running /\ mainPc = "returned"
    /\ mainPc' = "exited"
    /\ IF err # "nil"
       THEN /\ exitCode' = 1
            /\ UNCHANGED status
       ELSE /\ status' = [status EXCEPT !.excluded = Sorted(@), !.failing = Sorted(@),
                                        !.passing = Sorted(@)]
            /\ exitCode' = IF Len(status.modified) > 0 THEN 1 ELSE 0
    /\ UNCHANGED <<rw, calls>>
    /\ UNCHANGED <<conf, toolchain, disk, disk0, nWorkers, workers, wg, feeder,
                   tasksClosed, resultsClosed, nComplete, err, fatalResult, fixups,
                   writes>>

Next ==
    \/ Spawn
    \/ \E id \in 1..nWorkers : Feed(id)
    \/ CloseTasks
    \/ \E id \in 1..nWorkers : Build(id)
    \/ \E id \in 1..nWorkers : Fixup(id)
    \/ \E id \in 1..nWorkers : WorkerExit(id)
    \/ CloseResults
    \/ \E id \in 1..nWorkers : Collect(id)
    \/ Return
    \/ Finish

Spec == Init /\ [][Next]_vars

\* the command lines that name one directory several times
DupLists == {[i \in 1..n |-> 1] : n \in 2..MaxDirs}

InitDup ==
    /\ conf \in [dirs : DupLists, nWorkers : Requested, checkOnly : BOOLEAN]
    /\ toolchain \in [Dirs -> Toolchain]
    /\ \A d \in Dirs : d > 1 => toolchain[d] = "ok"
    /\ \E k \in 1..Len(Packages) : disk = DiskFrom(k, 1)
    /\ InitRun
    /\ rw = NoRw

SpecDup == InitDup /\ [][Next]_vars

\* the runs in which every build subprocess launches and ends, on
\* directories of one file each, with the files written
InitFair ==
    /\ conf \in [dirs : DirLists, nWorkers : Requested, checkOnly : {FALSE}]
    /\ toolchain \in [Dirs -> Toolchain \ {"launch"}]
    /\ \A d \in Dirs : d > Len(conf.dirs) => toolchain[d] = "ok"
    /\ disk = [d \in Dirs |-> IF d <= Len(conf.dirs) THEN <<FPlain>> ELSE <<>>]
    /\ InitRun
    /\ rw = NoRw

\* the Go scheduler runs a goroutine that can take a step: as long as some
\* step of main, of the feeder, of a worker or of the goroutine closing
\* results is possible, one is taken
SpecFair == InitFair /\ [][Next]_vars /\ WF_vars(Next)

\* ------------------------------------------ the rewriter on a single file
\* the comments of the input files
Comments == {Copyright,
             <<goBuild, constraint>>,
             <<goBuild, "linux">>,
             <<goBuild, "(", constraint, ")", "&&", "(", "linux", ")">>,
             <<goBuild, "linux", "&&", constraint>>}

\* a comment group holds one or two comments
Groups == {<<c>> : c \in Comments} \cup {<<c, d>> : c \in Comments, d \in Comments}

RECURSIVE SeqsUpTo(_, _)
SeqsUpTo(S, n) ==
    IF n = 0 THEN {<<>>}
    ELSE LET shorter == SeqsUpTo(S, n - 1)
         IN  shorter \cup {Append(q, x) : q \in {r \in shorter : Len(r) = n - 1}, x \in S}

Files == {FBad} \cup [ok : {TRUE}, cgs : SeqsUpTo(Groups, MaxGroups), canon : BOOLEAN]

InitRewriter ==
    /\ conf = [dirs |-> <<>>, nWorkers |-> 0, checkOnly |-> FALSE]
    /\ toolchain = [d \in Dirs |-> "ok"]
    /\ disk = [d \in Dirs |-> <<>>]
    /\ InitRun
    /\ \E f \in Files, co \in BOOLEAN :
           rw = [file0 |-> f, file |-> f, checkonly |-> co, hist |-> <<>>]

\* the call fixupFileConstraints(file, builds, rw.checkonly) with result r
Applied(builds, r) ==
    IF r.fatal
    THEN /\ exitCode' = 1
         /\ UNCHANGED rw
    ELSE /\ rw' = [rw EXCEPT !.file = r.out,
                             !.hist = Append(@, [builds |-> builds,
                                                 after |-> r.out,
                                                 changed |-> r.mustDoWork,
                                                 wrote |-> r.wrote])]
         /\ UNCHANGED exitCode

\* one call fixupFileConstraints(file, builds, rw.checkonly)
Rewrite(builds) ==
    /\ Running
    /\ Len(rw.hist) < MaxApply
    /\ \E writable \in BOOLEAN :
           \E r \in {fixupFileConstraints(rw.file, builds, rw.checkonly, writable)} :
               Applied(builds, r)
    /\ UNCHANGED run

NextRewriter == \E builds \in BOOLEAN : Rewrite(builds)

SpecRewriter == InitRewriter /\ [][NextRewriter]_vars

\* --------------------------- the rewriter on a file with one annotation line
Atoms == {"linux", "tinygo"}

Literals == {<<a>> : a \in Atoms} \cup {<<"!", a>> : a \in Atoms} \cup {<<clauseLike>>}

\* the expressions with n binary operators and no parentheses
RECURSIVE ExprsWith(_)
ExprsWith(n) ==
    IF n = 0 THEN Literals
    ELSE {e \o <<op>> \o l : e \in ExprsWith(n - 1), op \in {"&&", "||"}, l \in Literals}

Exprs == UNION {ExprsWith(n) : n \in 0..MaxOps}

\* a file with a header comment and the annotation line //go:build e
FExpr(e, canon) ==
    [ok |-> TRUE, cgs |-> << <<Copyright>>, << <<goBuild>> \o e >> >>, canon |-> canon]

InitConjoin ==
    /\ conf = [dirs |-> <<>>, nWorkers |-> 0, checkOnly |-> FALSE]
    /\ toolchain = [d \in Dirs |-> "ok"]
    /\ disk = [d \in Dirs |-> <<>>]
    /\ InitRun
    /\ \E f \in {FBad} \cup {FExpr(e, canon) : e \in Exprs, canon \in BOOLEAN},
          co \in BOOLEAN :
           rw = [file0 |-> f, file |-> f, checkonly |-> co, hist |-> <<>>]

SpecConjoin == InitConjoin /\ [][NextRewriter]_vars

\* ================================================================== claims
InList(s, d) == \E i \in 1..Len(s) : s[i] = d

Count(s, d) == Cardinality({i \in 1..Len(s) : s[i] = d})

Returned == mainPc \in {"returned", "exited"}

\* buildDirs returned and the collector never saw a result with err != nil
Completed == Returned /\ ~fatalResult

Jobs == {conf.dirs[i] : i \in 1..Len(conf.dirs)}

DirsWhere(t) == {d \in Jobs : toolchain[d] = t}

FixupsOf(d) == {f \in fixups : f[1] = d}

WritesOf(d) == {w \in writes : w[1] = d}

Untouched(d) == disk[d] = disk0[d] /\ WritesOf(d) = {}

\* C1: when buildDirs returns from a run no Fatal result aborted, every input
\* directory is in exactly one of passing, failing, excluded, once.
C1_ClassifiedExactlyOnce ==
    Completed =>
        \A d \in Jobs :
            Count(status.passing, d) + Count(status.failing, d)
                + Count(status.excluded, d) = 1

C1_Witness ==
    /\ mainPc = "returned" /\ ~fatalResult
    /\ Len(conf.dirs) = MaxDirs /\ nWorkers > 1
    /\ Len(status.passing) > 0 /\ Len(status.excluded) > 0

\* C2: buildDirs returns a non-nil error exactly when the collector stopped on
\* a result that carries a Fatal error.
C2_ErrorIffFatal == Returned => (fatalResult <=> err # "nil")

\* C3: the exit status of a completed run is non-zero exactly when a build was
\* Fatal or some directory is listed in modified.
C3_ExitStatus ==
    mainPc = "exited" =>
        (exitCode # 0 <=> (fatalResult \/ Len(status.modified) > 0))

Lines(file) ==
    {<<g, c>> \in (1..Len(file.cgs)) \X (1..2) :
        c <= Len(file.cgs[g]) /\ HasPrefixGoBuild(file.cgs[g][c])}

\* two applications in a row with the same arguments: the second reports no
\* change and leaves the content of the first
SecondIsNoOp ==
    \A i \in 1..(Len(rw.hist) - 1) :
        rw.hist[i].builds = rw.hist[i + 1].builds =>
            /\ ~rw.hist[i + 1].changed
            /\ rw.hist[i + 1].after = rw.hist[i].after

\* C4 as stated: for any file, desired and checkOnly the second of two
\* applications with the same arguments is a no-op.
C4_Idempotent == SecondIsNoOp

\* no comment group of the file holds two annotation lines
OneLinePerGroup(file) ==
    \A g \in 1..Len(file.cgs) : Cardinality({l \in Lines(file) : l[1] = g}) <= 1

\* C4 amended: when the rewriter writes (checkOnly not set) and no comment
\* group of the file holds two annotation lines, the second of two
\* applications with the same arguments reports changed=false and leaves the
\* content of the first.
C4_IdempotentWhenWriting ==
    (~rw.checkonly /\ OneLinePerGroup(rw.file0)) => SecondIsNoOp

C4_Witness ==
    /\ ~rw.checkonly /\ OneLinePerGroup(rw.file0)
    /\ Cardinality(Lines(rw.file0)) >= 1
    /\ Len(rw.hist) = 2
    /\ rw.hist[1].builds = rw.hist[2].builds
    /\ rw.hist[1].changed /\ rw.hist[1].wrote
    /\ ~rw.hist[2].changed /\ rw.hist[2].after = rw.hist[1].after

\* C5: with checkOnly no step changes the bytes of any file on disk (and the
\* witness shows changed is still reported).
C5_CheckOnlyNeverWrites == conf.checkOnly => (disk = disk0 /\ writes = {})

C5_Witness ==
    /\ conf.checkOnly /\ mainPc = "exited"
    /\ Len(status.modified) > 0
    /\ \E f \in fixups : f[3] > 1

\* no file needs an edit when the directory builds: every file parses, is in
\* the printer's layout and has no comment holding the managed clause
Clean(files) ==
    \A i \in 1..Len(files) :
        /\ files[i].ok /\ files[i].canon
        /\ \A g \in 1..Len(files[i].cgs) : \A c \in 1..Len(files[i].cgs[g]) :
               ~Contains(files[i].cgs[g][c])

C7_ExcludedUntouched ==
    \A d \in DirsWhere("exitExcluded") :
        /\ FixupsOf(d) = {} /\ Untouched(d)
        /\ ~InList(status.passing, d) /\ ~InList(status.failing, d)
        /\ ~InList(status.modified, d)
        /\ Completed => InList(status.excluded, d)
        /\ \A id \in 1..nWorkers :
               workers[id].dir = d /\ workers[id].pc = "send" =>
                   workers[id].buildRes.excluded /\ workers[id].err = "nil"

C7_Witness ==
    \E d \in DirsWhere("exitExcluded") :
        /\ Completed /\ InList(status.excluded, d)
        /\ ~Clean(disk0[d])

NoAnnotation(file) ==
    \A g \in 1..Len(file.cgs) : FirstGoBuild(file.cgs[g]) = 0

\* C8: a directory whose build fails and that is not excluded has outcome
\* Failure, the rewriter runs on every .go file with desired=true (builds is
\* true exactly for a directory that builds), and with a file that had no
\* annotation the directory is in failing and in modified.
C8_FailureAddsClause ==
    /\ \A f \in fixups : f[2] = (toolchain[f[1]] = "ok")
    /\ \A d \in DirsWhere("exit") :
        /\ \A id \in 1..nWorkers :
               workers[id].dir = d /\ workers[id].pc \in {"fixup", "send"} =>
                   /\ workers[id].buildRes.err # "nil"
                   /\ ~workers[id].buildRes.excluded /\ workers[id].err = "nil"
        /\ Completed =>
               /\ <<d, FALSE, Len(disk0[d])>> \in fixups
               /\ InList(status.failing, d)
               /\ (\E i \in 1..Len(disk0[d]) : NoAnnotation(disk0[d][i]))
                      => InList(status.modified, d)

C8_Witness ==
    \E d \in DirsWhere("exit") :
        /\ Completed /\ Len(disk0[d]) > 1
        /\ NoAnnotation(disk0[d][1]) /\ ~NoAnnotation(disk0[d][2])
        /\ InList(status.failing, d) /\ InList(status.modified, d)

\* the first line with the prefix, in comment-group order, holds the clause
RECURSIVE FirstLineHasClause(_)
FirstLineHasClause(cgs) ==
    IF cgs = <<>> THEN FALSE
    ELSE IF FirstGoBuild(Head(cgs)) # 0
    THEN Contains(Head(cgs)[FirstGoBuild(Head(cgs))])
    ELSE FirstLineHasClause(Tail(cgs))

AllCarryClause(files) ==
    \A i \in 1..Len(files) : files[i].ok /\ FirstLineHasClause(files[i].cgs)

\* C9: when the annotation line of every file of a failing directory already
\* holds the clause, no file is printed or written and the directory is not in
\* modified.
C9_ClausePresentNoWrite ==
    \A d \in DirsWhere("exit") :
        AllCarryClause(disk0[d]) => Untouched(d) /\ ~InList(status.modified, d)

C9_Witness ==
    \E d \in DirsWhere("exit") :
        /\ AllCarryClause(disk0[d]) /\ ~conf.checkOnly
        /\ \E i \in 1..Len(disk0[d]) : ~disk0[d][i].canon
        /\ Completed /\ InList(status.failing, d)

Min(a, b) == IF a < b THEN a ELSE b

\* C10: min(W, N) workers are spawned, W the requested count or the CPU count
\* when the request is <= 0; never more workers than jobs.
C10_WorkerCount ==
    Started =>
        /\ Len(workers) = Min(IF conf.nWorkers > 0 THEN conf.nWorkers ELSE NumCPU,
                              Len(conf.dirs))
        /\ nWorkers = Len(workers) /\ nWorkers <= Len(conf.dirs)

C10_Witness ==
    /\ Started /\ conf.nWorkers > Len(conf.dirs)
    /\ Len(conf.dirs) = MaxDirs /\ Len(workers) = MaxDirs

\* the file the i-th application of the rewriter started from
Before(i) == IF i = 1 THEN rw.file0 ELSE rw.hist[i - 1].after

\* the annotation line of a file that has exactly one
TheLine(file) ==
    LET l == CHOOSE l \in Lines(file) : TRUE IN file.cgs[l[1]][l[2]]

OneLine(file) == Cardinality(Lines(file)) = 1

NComments(file) ==
    Cardinality({<<g, c>> \in (1..Len(file.cgs)) \X (1..2) : c <= Len(file.cgs[g])})

\* an expression that starts or ends with the conjunction operator
Dangling(c) == c[2] = "&&" \/ c[Len(c)] = "&&"

\* the i-th application ran with desired=false on a file whose one annotation
\* line holds the clause
StripCase(i) ==
    rw.hist[i].builds /\ OneLine(Before(i)) /\ Contains(TheLine(Before(i)))

\* C11: with desired=false on a file whose annotation line holds the clause,
\* changed=true is reported; the written file has lost the whole line when its
\* expression was exactly the clause, and otherwise keeps the line without the
\* clause and without the conjunction operator that was next to it.
C11_StripsClauseAndOperator ==
    \A i \in 1..Len(rw.hist) :
        StripCase(i) =>
            /\ rw.hist[i].changed
            /\ ~rw.checkonly =>
                   IF TheLine(Before(i)) = <<goBuild, constraint>>
                   THEN /\ Lines(rw.hist[i].after) = {}
                        /\ NComments(rw.hist[i].after) = NComments(Before(i)) - 1
                   ELSE /\ OneLine(rw.hist[i].after)
                        /\ ~Contains(TheLine(rw.hist[i].after))
                        /\ ~Dangling(TheLine(rw.hist[i].after))

\* C12: on a file without annotation line, desired=true reports changed=true
\* and the written file has one more comment group, holding the one line
\* with exactly the clause, right after the first group of the file, or first
\* when the file had no group, the other groups being kept in their order;
\* desired=false leaves the comment groups as they were.
C12_InsertAfterFirstGroup ==
    \A i \in 1..Len(rw.hist) :
        NoAnnotation(Before(i)) =>
            IF rw.hist[i].builds
            THEN rw.hist[i].after.cgs = Before(i).cgs
            ELSE /\ rw.hist[i].changed
                 /\ ~rw.checkonly =>
                      LET old == Before(i).cgs
                          new == rw.hist[i].after.cgs
                          at == IF Len(old) > 0 THEN 2 ELSE 1
                      IN  /\ Len(new) = Len(old) + 1
                          /\ new[at] = << <<goBuild, constraint>> >>
                          /\ \A j \in 1..Len(old) :
                                 old[j] = new[IF j < at THEN j ELSE j + 1]

C12_Witness ==
    /\ Len(rw.hist) = 2 /\ ~rw.checkonly
    /\ Len(rw.file0.cgs) = 2 /\ NoAnnotation(rw.file0)
    /\ rw.hist[1].builds /\ ~rw.hist[2].builds
    /\ rw.hist[1].after.cgs = rw.file0.cgs
    /\ rw.hist[2].wrote
    /\ rw.hist[2].after.cgs[2] = << <<goBuild, constraint>> >>
    /\ rw.hist[2].after.cgs[3] = rw.file0.cgs[2]

\* the comment group of the first annotation line of a file that has one
FirstLineGroup(file) ==
    CHOOSE g \in 1..Len(file.cgs) :
        /\ FirstGoBuild(file.cgs[g]) # 0
        /\ \A h \in 1..(g - 1) : FirstGoBuild(file.cgs[h]) = 0

\* the last n comment groups of a file
LastGroups(file, n) == SubSeq(file.cgs, Len(file.cgs) - n + 1, Len(file.cgs))

\* C13: one call edits only the first annotation line of the file: the
\* comment groups after the group of that line are the same before and after
\* the call.
C13_OnlyFirstLineEdited ==
    \A i \in 1..Len(rw.hist) :
        ~NoAnnotation(Before(i)) =>
            LET n == Len(Before(i).cgs) - FirstLineGroup(Before(i))
            IN  /\ Len(rw.hist[i].after.cgs) >= n
                /\ LastGroups(rw.hist[i].after, n) = LastGroups(Before(i), n)

\* the tokens of an expression, the managed clause spelled out
RECURSIVE Tokens(_)
Tokens(t) ==
    IF t = <<>> THEN <<>>
    ELSE IF Head(t) = constraint
    THEN <<"!", "tinygo", "||", "tinygo.enable">> \o Tokens(Tail(t))
    ELSE IF Head(t) = clauseLike
    THEN <<"!", "tinygo", "||", "tinygo_enable">> \o Tokens(Tail(t))
    ELSE <<Head(t)>> \o Tokens(Tail(t))

\* the value of a build expression under env, the set of the tags that are
\* true: `!` binds tighter than `&&`, `&&` tighter than `||`.  An evaluation
\* returns the value of the longest expression at the head of the tokens and
\* the tokens after it.
Negated(r) == [val |-> ~r.val, rest |-> r.rest]

Closed(r) == [val |-> r.val, rest |-> Tail(r.rest)]

Both(l, r) == [val |-> l.val /\ r.val, rest |-> r.rest]

Either(l, r) == [val |-> l.val \/ r.val, rest |-> r.rest]

RECURSIVE EvalUnary(_, _)
RECURSIVE AndRest(_, _)
RECURSIVE OrRest(_, _)
RECURSIVE EvalOr(_, _)
EvalUnary(t, env) ==
    IF Head(t) = "!" THEN Negated(EvalUnary(Tail(t), env))
    ELSE IF Head(t) = "(" THEN Closed(EvalOr(Tail(t), env))
    ELSE [val |-> Head(t) \in env, rest |-> Tail(t)]

AndRest(l, env) ==
    IF l.rest # <<>> /\ Head(l.rest) = "&&"
    THEN AndRest(Both(l, EvalUnary(Tail(l.rest), env)), env)
    ELSE l

EvalAnd(t, env) == AndRest(EvalUnary(t, env), env)

OrRest(l, env) ==
    IF l.rest # <<>> /\ Head(l.rest) = "||"
    THEN OrRest(Either(l, EvalAnd(Tail(l.rest), env)), env)
    ELSE l

EvalOr(t, env) == OrRest(EvalAnd(t, env), env)

Eval(e, env) == EvalOr(Tokens(e), env).val

Tags == {"linux", "tinygo", "tinygo.enable", "tinygo_enable"}

\* the expression of an annotation line
Expr(c) == Tail(c)

\* the i-th application ran with desired=true on a file whose one annotation
\* line has a well-formed expression that does not hold the clause
ConjoinCase(i) ==
    /\ ~rw.hist[i].builds /\ OneLine(Before(i))
    /\ ~Contains(TheLine(Before(i)))
    /\ Expr(TheLine(Before(i))) \in Exprs

\* C14: with desired=true on a file whose annotation line has the expression
\* E without the clause, changed=true is reported and the written line has the
\* expression (clause) && (E), whose value is that of clause AND E for every
\* truth assignment of the tags.
C14_ConjunctionEquivalent ==
    \A i \in 1..Len(rw.hist) :
        ConjoinCase(i) =>
            /\ rw.hist[i].changed
            /\ ~rw.checkonly =>
                 /\ OneLine(rw.hist[i].after)
                 /\ Expr(TheLine(rw.hist[i].after)) =
                        <<"(", constraint, ")", "&&", "(">>
                            \o Expr(TheLine(Before(i))) \o <<")">>
                 /\ \A env \in SUBSET Tags :
                        Eval(Expr(TheLine(rw.hist[i].after)), env) =
                            (Eval(<<constraint>>, env)
                                /\ Eval(Expr(TheLine(Before(i))), env))

C14_Witness ==
    /\ Len(rw.hist) = 1 /\ ~rw.checkonly /\ ConjoinCase(1)
    /\ rw.hist[1].wrote
    /\ \E k \in 1..Len(TheLine(rw.file0)) : TheLine(rw.file0)[k] = "||"
    /\ \E env \in SUBSET Tags :
           /\ Eval(Expr(TheLine(rw.file0)), env)
           /\ ~Eval(Expr(TheLine(rw.hist[1].after)), env)
    /\ \E env \in SUBSET Tags : Eval(Expr(TheLine(rw.hist[1].after)), env)

\* the first two applications are desired=true then desired=false, both
\* writing, on a file whose annotation state has no managed clause
RoundTrip ==
    /\ Len(rw.hist) >= 2 /\ ~rw.checkonly
    /\ ~FirstLineHasClause(rw.file0.cgs)
    /\ ~rw.hist[1].builds /\ rw.hist[2].builds

\* C15: desired=true then desired=false, both writing, on a file without the
\* managed clause gives a file without the managed clause that has an
\* annotation line exactly when the original had one.
C15_RoundTrip ==
    RoundTrip =>
        /\ ~FirstLineHasClause(rw.hist[2].after.cgs)
        /\ NoAnnotation(rw.hist[2].after) <=> NoAnnotation(rw.file0)

\* the BuildRes and the error a worker holds after build() on a directory
\* whose subprocesses do t
Outcome(id, resErr, excluded, e) ==
    /\ workers[id].buildRes = [err |-> resErr, excluded |-> excluded]
    /\ workers[id].err = e

\* C16: build runs its subprocess at most once per directory (once at a
\* completed return); exit success gives Success, exit failure gives Excluded
\* when the oracle says so and Failure otherwise, a launch error gives a
\* non-nil error that is not a build failure; isExcluded is called once after
\* an exit failure and never otherwise; a directory of a launch error is in
\* no list.
C16_BuildOutcome ==
    /\ \A d \in Dirs :
           /\ calls[d].build <= 1
           /\ calls[d].oracle =
                  (IF calls[d].build = 1 /\ toolchain[d] \in {"exit", "exitExcluded"}
                   THEN 1 ELSE 0)
           /\ Completed /\ d \in Jobs => calls[d].build = 1
    /\ \A id \in 1..nWorkers :
           workers[id].pc \in {"fixup", "send"} =>
               /\ toolchain[workers[id].dir] = "ok" => Outcome(id, "nil", FALSE, "nil")
               /\ toolchain[workers[id].dir] = "exit"
                      => Outcome(id, "ExitError", FALSE, "nil")
               /\ toolchain[workers[id].dir] = "exitExcluded"
                      => Outcome(id, "ExitError", TRUE, "nil") /\ workers[id].pc = "send"
               /\ toolchain[workers[id].dir] = "launch"
                      => Outcome(id, "nil", FALSE, "launch") /\ workers[id].pc = "send"
    /\ \A d \in DirsWhere("launch") :
           /\ ~InList(status.failing, d) /\ ~InList(status.passing, d)
           /\ ~InList(status.excluded, d) /\ ~InList(status.modified, d)
           /\ Returned /\ calls[d].build = 1 => fatalResult

C16_Witness ==
    /\ Returned /\ fatalResult
    /\ \E d \in DirsWhere("launch") : calls[d].build = 1 /\ calls[d].oracle = 0
    /\ \E d \in DirsWhere("exitExcluded") :
           calls[d].oracle = 1 /\ InList(status.excluded, d)

\* the rewriter ended in log.Fatal on a file of d: fixupPkgConstraints ran on
\* d and did not get back from every file
Died(d) == \E f \in FixupsOf(d) : f[3] < Len(disk0[d])

InNoList(d) ==
    /\ ~InList(status.passing, d) /\ ~InList(status.failing, d)
    /\ ~InList(status.excluded, d) /\ ~InList(status.modified, d)

\* C17 as stated: the error of the rewriter reaches the orchestrator in the
\* result of the worker.
C17_ErrorInWorkerResult ==
    \A d \in Jobs :
        Died(d) => \E id \in 1..nWorkers : workers[id].dir = d /\ workers[id].err # "nil"

\* C17 amended: a file that does not parse or cannot be written ends the
\* process at once with status 1 from inside the rewriter; no result is sent
\* for its directory, which is in no list; the error of a worker result is
\* only ever the one of build; and a directory listed as passing or failing
\* has only files that parse and, unless checkOnly, every edit written.
C17_RewriterErrorExits ==
    /\ \A d \in Jobs :
           Died(d) =>
               /\ exitCode = 1 /\ mainPc # "exited"
               /\ InNoList(d)
               /\ \A id \in 1..nWorkers :
                      workers[id].dir = d => workers[id].pc = "fixup"
    /\ \A id \in 1..nWorkers :
           workers[id].err # "nil" =>
               workers[id].err = "launch" /\ toolchain[workers[id].dir] = "launch"
    /\ \A d \in Jobs :
           InList(status.passing, d) \/ InList(status.failing, d) =>
               /\ \A i \in 1..Len(disk0[d]) : disk0[d][i].ok
               /\ ~conf.checkOnly =>
                      disk[d] = fixupPkgConstraints(disk0[d], toolchain[d] = "ok",
                                                    FALSE, TRUE).files

C17_Witness ==
    \E d \in Jobs :
        /\ Died(d) /\ exitCode = 1
        /\ \A i \in 1..Len(disk0[d]) : disk0[d][i].ok
        /\ Len(disk0[d]) > 1 /\ disk[d] = disk0[d]
        /\ \E e \in Jobs : e # d /\ InList(status.modified, e)

\* no build subprocess fails to launch
NoLaunch == \A d \in Jobs : toolchain[d] # "launch"

\* the order of the channel operations of buildDirs
ChannelOrder ==
    /\ tasksClosed => feeder > Len(conf.dirs)
    /\ \A id \in 1..nWorkers : workers[id].pc = "done" => tasksClosed
    /\ resultsClosed => wg = 0 /\ \A id \in 1..nWorkers : workers[id].pc = "done"
    /\ Completed => resultsClosed /\ nComplete = Len(conf.dirs)
    /\ Started /\ Len(conf.dirs) = 0 => nWorkers = 0

\* C18: in a run where every subprocess launches and ends, under fair
\* scheduling buildDirs eventually returns (or log.Fatal in the rewriter has
\* ended the process) for every number of directories and of workers; tasks
\* is closed only after the last directory was sent, a worker exits only after
\* that, results is closed only after every worker exited, and the collector
\* has received one result per directory when its loop ends; without
\* directories no worker is spawned.
C18_Terminates ==
    /\ []ChannelOrder
    /\ <>(Returned \/ exitCode = 1)

C18_Witness ==
    /\ mainPc = "returned" /\ ~fatalResult /\ NoLaunch
    /\ nWorkers = 1 /\ nComplete = MaxDirs /\ resultsClosed

\* C19: once the collector has stopped on a Fatal result, no worker is left
\* waiting to send its result (nothing receives from results any more, so such
\* a worker never exits and results is never closed) and the feeder is not
\* left with directories it cannot hand out.
C19_WindDownAfterFatal ==
    fatalResult =>
        /\ \A id \in 1..nWorkers : workers[id].pc # "send"
        /\ (\A id \in 1..nWorkers : workers[id].pc \in {"send", "done"})
               => feeder > Len(conf.dirs)

\* the workers that are in build or in fixupPkgConstraints on directory d
Processing(d) ==
    {id \in 1..nWorkers : workers[id].pc \in {"build", "fixup"} /\ workers[id].dir = d}

\* the tasks workers have received and not given a result for yet
InFlight == {id \in 1..nWorkers : workers[id].pc \in {"build", "fixup", "send"}}

\* C20: for every list of directories, at no time two workers are in build or
\* in the rewriter on the same directory, and every task sent was received by
\* one worker: the tasks received are the results collected plus the tasks
\* in flight.
C20_NoSharedDirectory ==
    /\ \A d \in Dirs : Cardinality(Processing(d)) <= 1
    /\ Running => feeder - 1 = nComplete + Cardinality(InFlight)

\* the results the collector classified
Classified == Len(status.passing) + Len(status.failing) + Len(status.excluded)

\* the workers whose result the collector receives in this step
Received == {id \in 1..nWorkers : workers[id].pc = "send" /\ workers'[id].pc = "recv"}

ProgressCount ==
    /\ mainPc = "start" => nComplete = 0
    /\ nComplete <= Len(conf.dirs)
    /\ nComplete = Classified + (IF fatalResult THEN 1 ELSE 0)

\* C21: nComplete is 0 when buildDirs starts, grows by exactly 1 with each
\* result the collector receives and changes in no other step, is never more
\* than the number of directories, and is the number of directories in
\* passing, failing and excluded, plus 1 when the collector stopped on a Fatal
\* result.
C21_ProgressCounter ==
    /\ []ProgressCount
    /\ [][/\ Cardinality(Received) <= 1
          /\ nComplete' = nComplete + Cardinality(Received)]_vars

\* the second directory submitted is the first one counted, the first
\* directory submitted is the Fatal one
C21_Witness ==
    /\ fatalResult /\ nComplete = 2
    /\ toolchain[1] = "launch" /\ Classified = 1
    /\ Len(conf.dirs) = 2 /\ conf.dirs[2] # 1

\* every entry of modified is a directory that is in passing or in failing,
\* not in excluded, and whose build subprocess ran
ModifiedClassified ==
    \A i \in 1..Len(status.modified) :
        LET d == status.modified[i]
        IN  /\ InList(status.passing, d) \/ InList(status.failing, d)
            /\ ~InList(status.excluded, d)
            /\ toolchain[d] \in {"ok", "exit"}

ModifiedOnce == \A d \in Dirs : Count(status.modified, d) <= 1

\* fixupFileConstraints returns mustDoWork = true on a file of d
Reported(d) ==
    /\ toolchain[d] \in {"ok", "exit"}
    /\ \E i \in 1..Len(disk0[d]) :
           fixupFileConstraints(disk0[d][i], toolchain[d] = "ok", conf.checkOnly,
                                TRUE).mustDoWork

ModifiedIffChanged ==
    Completed =>
        \A d \in Jobs :
            /\ InList(status.modified, d) <=> Reported(d)
            /\ ~conf.checkOnly =>
                   (Reported(d) <=> \E w \in WritesOf(d) : disk[d][w[2]] # disk0[d][w[2]])

\* C22: in every state modified holds only directories that are in passing or
\* failing (none excluded, none with a Fatal result), each at most once; and
\* when a run no Fatal result aborted returns, a directory is in modified
\* exactly when the rewriter reported a change for one of its files, which
\* without checkOnly is exactly when one of its files was overwritten.
C22_ModifiedSubset ==
    /\ ModifiedClassified
    /\ ModifiedOnce
    /\ ModifiedIffChanged

\* close(tasks) is the statement after the loop of the feeder: the feeder has
\* no send left when tasks is closed, and a worker leaves its loop only then
NoSendOnClosedTasks ==
    /\ tasksClosed => feeder > Len(conf.dirs)
    /\ \A id \in 1..nWorkers : workers[id].pc = "done" => tasksClosed

\* every worker has returned when results is closed: none has a result to
\* send or can get to one
NoSendOnClosedResults ==
    resultsClosed =>
        /\ wg = 0
        /\ \A id \in 1..nWorkers : workers[id].pc = "done"

\* main has run to its end
Exited == mainPc = "exited"

\* C23: in every interleaving, the runs a Fatal result aborts included, the
\* feeder has sent its last directory when tasks is closed, every worker has
\* returned when results is closed (no send follows a close), and tasks has
\* been closed by the feeder also in a run that main ended after a Fatal
\* result.
C23_ChannelsClosedOnce ==
    /\ NoSendOnClosedTasks
    /\ NoSendOnClosedResults
    /\ Exited /\ fatalResult => tasksClosed

====
